---- MODULE Spec2Model ----
(***************************************************************************)
(* Model of fastwebsearch: the search gate and fan-out of                  *)
(* fastwebsearch/core.py (FastWebSearch), the proxy pool of                *)
(* fastwebsearch/proxies.py (ProxyManager), the robots check, fetch and    *)
(* scrape_urls and the caching WebScraper of fastwebsearch/scraper.py, and *)
(* the Proxy dataclass of fastwebsearch/models.py.                         *)
(*                                                                         *)
(* Scheduling is asyncio's: a coroutine runs without interruption between  *)
(* two suspension points (an await that really suspends), so every action  *)
(* of a coroutine is the code between two of its suspension points. The    *)
(* allowed_by_robots calls run in worker threads and can be switched out   *)
(* between any two lines.                                                  *)
(* For the gate and the WebScraper, time is a discrete clock `now` that    *)
(* ticks on its own, and RateInterval is 1.0 / rate_limit in clock ticks.  *)
(* For the pool, `now` is the last instant datetime.now() returned: a read *)
(* that stamps a field returns a later one.                                *)
(* The proxies of a pool are the ids 1..n: pairwise distinct objects that  *)
(* can be keys of proxy_stats. What the Proxy class of models.py gives is  *)
(* modelled apart, in SpecIdentity.                                        *)
(* Each specification leaves the state of the other components idle.       *)
(***************************************************************************)
EXTENDS Integers, Sequences, FiniteSets, TLC

\* ---------------------------------------------------------------- bounds
MaxConcurrent == 2      \* largest max_concurrent_searches tried
MaxQueries == 3         \* longest batch given to multi_search
MaxTime == 4            \* the clock stops ticking here
MaxEvents == 2          \* counted successes and failures, over all proxies
RateInterval == 2       \* 1.0 / rate_limit, in clock ticks
MaxUrls == 2            \* longest batch given to scrape_urls
MaxRetries == 2         \* largest max_retries given to scrape_urls
MaxTtl == 2             \* largest cache_ttl tried, in clock ticks
MaxConnections == 2     \* largest max_connections tried
MaxProxyObjects == 2    \* longest list of Proxy objects given to ProxyManager

QueryStrings == {"a", "b"}
Variants == {1, 2}      \* distinguishes two provider answers to one query

VARIABLES
    \* FastWebSearch (core.py)
    max_concurrent_searches,  \* constructor argument
    rate_limit,               \* constructor argument: 0, or 1 for a positive rate, whose
                              \* interval 1.0 / rate_limit is RateInterval ticks
    semaphore,                \* asyncio.Semaphore: its free slots
    last_request_time,        \* self.last_request_time
    now,                      \* datetime.now()
    queries,                  \* argument of the running multi_search
    mpc,                      \* multi_search: "idle", "gather", "returned"
    tpc,                      \* search task i: "waiting", "sleeping", "provider", "done"
    wake,                     \* search task i: when its asyncio.sleep ends
    provider_out,             \* search task i: what search_engine.search did: [raised, value]
    task_result,              \* search task i: [raised, value] of the search coroutine
    finished,                 \* task ids in the order the tasks finished
    admissions,               \* clock values at which _rate_limit returned
    mret,                     \* what multi_search gave back: [raised, value]
    \* ProxyManager (proxies.py)
    proxies,                  \* self.proxies: the registered proxies, ids 1..n
    working_proxies,          \* self.working_proxies, a list
    proxy_stats,              \* self.proxy_stats[p]
    last_used,                \* Proxy.last_used of each proxy, -1 for None
    gpc,                      \* get_proxy: "idle", "probe", "fallback", "returned"
    sorted_proxies,           \* get_proxy: sorted_proxies[:3]
    gidx,                     \* get_proxy: position of the loop in sorted_proxies
    fb_tasks,                 \* get_proxy: the proxies of the gathered verify_proxy calls
    fb_results,               \* get_proxy: their results, "pending" until there
    gret,                     \* get_proxy: the proxy returned, 0 for None
    probed,                   \* proxies the running get_proxy probed in its loop
    last_exception,           \* the exception the last mark_proxy_failed ended with, "" for none
    calls,                    \* per proxy, the calls that report a success or a failure
    \* allowed_by_robots, fetch, scrape_urls (scraper.py)
    robot_parsers,            \* _robot_parsers: origin -> parser, absent until stored
    robots_reads,             \* per origin, how many times rp.read() fetched its document
    urls,                     \* argument of the running scrape_urls
    max_retries,              \* argument of the running scrape_urls
    spc,                      \* scrape_urls: "idle", "gather", "returned"
    sret,                     \* what scrape_urls gave back: [raised, value]
    fpc,                      \* fetch i: "lookup", "read", "answer", "checked", "get",
                              \*          "sleep", "done"
    allowed,                  \* fetch i: what its allowed_by_robots call returned
    attempt,                  \* fetch i: the loop variable, iterations begun so far
    backoff,                  \* fetch i: the local backoff
    selections,               \* fetch i: proxies taken with next(proxy_cycle)
    gets,                     \* fetch i: session.get calls
    sleeps,                   \* fetch i: the delays it slept, in order
    fres,                     \* fetch i: [raised, value] of the fetch coroutine
    \* WebScraper (scraper.py)
    cache_ttl,                \* constructor argument, in clock ticks
    max_connections,          \* constructor argument
    connections,              \* self.semaphore: its free slots
    cache,                    \* self.cache: url -> <<content, timestamp>>
    cpc,                      \* get_page_content call c: "idle", "waiting", "get", "done"
    curl,                     \* call c: its url
    transport,                \* call c: session.get calls it made
    cres,                     \* call c: [raised, value] of the call
    \* Proxy (models.py) and ProxyManager.__init__ over Proxy objects
    proxy_objects,            \* the list of Proxy objects given to ProxyManager
    pm_state,                 \* "new", "constructed" or the exception __init__ raised
    pm_keys                   \* the keys of proxy_stats after __init__

gateVars == <<max_concurrent_searches, rate_limit, semaphore, last_request_time, queries,
              mpc, tpc, wake, provider_out, task_result, finished, admissions, mret>>

searchVars == <<gateVars, now>>

proxyVars == <<proxies, working_proxies, proxy_stats, last_used, gpc, sorted_proxies,
               gidx, fb_tasks, fb_results, gret, probed, last_exception, calls>>

fetchVars == <<robot_parsers, robots_reads, urls, max_retries, spc, sret, fpc,
               allowed, attempt, backoff, selections, gets, sleeps, fres>>

cacheVars == <<cache_ttl, max_connections, connections, cache, cpc, curl, transport, cres>>

identityVars == <<proxy_objects, pm_state, pm_keys>>

scraperVars == <<fetchVars, cacheVars, identityVars>>

vars == <<searchVars, proxyVars, scraperVars>>

\* ------------------------------------------------------------ helpers
Range(s) == {s[i] : i \in DOMAIN s}

SeqsUpTo(S, n) == UNION {[1..k -> S] : k \in 0..n}

Tasks == DOMAIN tpc

EmptyList == <<>>

NoResult == [raised |-> FALSE, value |-> EmptyList]

\* What the provider can answer to a query: an empty list or one result
\* carrying the query it was asked and a variant.
ProviderAnswers(q) == {EmptyList} \cup {<< <<q, v>> >> : v \in Variants}

\* The state of the proxy pool while the search gate is the subject: no pool.
ProxyIdle ==
    /\ proxies = <<>>
    /\ working_proxies = <<>>
    /\ proxy_stats = <<>>
    /\ last_used = <<>>
    /\ gpc = "idle"
    /\ sorted_proxies = <<>>
    /\ gidx = 0
    /\ fb_tasks = <<>>
    /\ fb_results = <<>>
    /\ gret = 0
    /\ probed = <<>>
    /\ last_exception = ""
    /\ calls = <<>>

\* scrape_urls has given nothing back yet.
NoBatch == [raised |-> FALSE, exc |-> "", value |-> <<>>]

\* The state of allowed_by_robots, fetch and scrape_urls while they are not
\* the subject: no origin looked up, no batch.
FetchIdle ==
    /\ robot_parsers = <<>>
    /\ robots_reads = <<>>
    /\ urls = <<>>
    /\ max_retries = 0
    /\ spc = "idle"
    /\ sret = NoBatch
    /\ fpc = <<>>
    /\ allowed = <<>>
    /\ attempt = <<>>
    /\ backoff = <<>>
    /\ selections = <<>>
    /\ gets = <<>>
    /\ sleeps = <<>>
    /\ fres = <<>>

\* The state of the WebScraper while it is not the subject: no scraper.
CacheIdle ==
    /\ cache_ttl = 0
    /\ max_connections = 0
    /\ connections = 0
    /\ cache = <<>>
    /\ cpc = <<>>
    /\ curl = <<>>
    /\ transport = <<>>
    /\ cres = <<>>

\* No Proxy object, no ProxyManager built over Proxy objects.
IdentityIdle ==
    /\ proxy_objects = <<>>
    /\ pm_state = "new"
    /\ pm_keys = {}

\* ------------------------------------------------- FastWebSearch.__init__
GateInit(rates) ==
    /\ max_concurrent_searches \in 1..MaxConcurrent
    /\ rate_limit \in rates
    /\ semaphore = max_concurrent_searches
    /\ now = 0
    /\ last_request_time = now
    /\ queries = <<>>
    /\ mpc = "idle"
    /\ tpc = <<>>
    /\ wake = <<>>
    /\ provider_out = <<>>
    /\ task_result = <<>>
    /\ finished = <<>>
    /\ admissions = <<>>
    /\ mret = NoResult
    /\ ProxyIdle
    /\ FetchIdle
    /\ CacheIdle
    /\ IdentityIdle

\* A FastWebSearch with a positive rate_limit.
SearchInit == GateInit({1})

\* The clock advances on its own.
Tick ==
    /\ now < MaxTime
    /\ now' = now + 1
    /\ UNCHANGED <<max_concurrent_searches, rate_limit, semaphore, last_request_time, queries, mpc,
                   tpc, wake, provider_out, task_result, finished, admissions, mret>>
    /\ UNCHANGED <<proxyVars, scraperVars>>

\* multi_search, lines 80-86: one task per query, then await gather.
MultiSearchStart(qs) ==
    /\ mpc = "idle"
    /\ queries' = qs
    /\ tpc' = [i \in 1..Len(qs) |-> "waiting"]
    /\ wake' = [i \in 1..Len(qs) |-> 0]
    /\ provider_out' = [i \in 1..Len(qs) |-> NoResult]
    /\ task_result' = [i \in 1..Len(qs) |-> NoResult]
    /\ mpc' = "gather"
    /\ UNCHANGED <<max_concurrent_searches, rate_limit, semaphore, last_request_time, now,
                   finished, admissions, mret>>
    /\ UNCHANGED <<proxyVars, scraperVars>>

\* asyncio.Semaphore.acquire: only with a free slot.
SemaphoreAlwaysFree == TRUE

SemaphoreFree == semaphore > 0

\* _rate_limit, line 33: must this caller sleep.
TooSoon(time_since_last) == time_since_last < RateInterval

\* search, lines 52-53 and _rate_limit, lines 31-35: enter the semaphore and
\* run _rate_limit up to its sleep; without a sleep _rate_limit returns at
\* once and the provider is called.
Admit(t) ==
    /\ mpc \in {"gather", "returned"}
    /\ tpc[t] = "waiting"
    /\ rate_limit # 0
    /\ SemaphoreFree
    /\ semaphore' = semaphore - 1
    /\ LET time_since_last == now - last_request_time IN
       IF TooSoon(time_since_last)
       THEN /\ wake' = [wake EXCEPT ![t] = now + (RateInterval - time_since_last)]
            /\ tpc' = [tpc EXCEPT ![t] = "sleeping"]
            /\ UNCHANGED <<last_request_time, admissions>>
       ELSE /\ last_request_time' = now
            /\ admissions' = Append(admissions, now)
            /\ tpc' = [tpc EXCEPT ![t] = "provider"]
            /\ UNCHANGED wake
    /\ UNCHANGED <<max_concurrent_searches, rate_limit, now, queries, mpc, provider_out,
                   task_result, finished, mret>>
    /\ UNCHANGED <<proxyVars, scraperVars>>

\* _rate_limit, lines 34-35: the sleep is over; stamp last_request_time and
\* return, and search calls the provider.
Wake(t) ==
    /\ tpc[t] = "sleeping"
    /\ now >= wake[t]
    /\ last_request_time' = now
    /\ admissions' = Append(admissions, now)
    /\ tpc' = [tpc EXCEPT ![t] = "provider"]
    /\ wake' = [wake EXCEPT ![t] = 0]
    /\ UNCHANGED <<max_concurrent_searches, rate_limit, semaphore, now, queries, mpc,
                   provider_out, task_result, finished, mret>>
    /\ UNCHANGED <<proxyVars, scraperVars>>

\* search, lines 54-62: what the search coroutine gives for a provider
\* outcome; an exception of the provider becomes the empty list.
SearchNoCatch(raised, value) == [raised |-> raised, value |-> value]

SearchOutcome(raised, value) ==
    IF raised THEN [raised |-> FALSE, value |-> EmptyList]
              ELSE [raised |-> FALSE, value |-> value]

\* async with self.semaphore, on exit: one slot back.
NoRelease(s) == s

Release(s) == s + 1

\* search, lines 55-59: the provider returns a list.
ProviderReturn(t, r) ==
    /\ tpc[t] = "provider"
    /\ task_result' = [task_result EXCEPT ![t] = SearchOutcome(FALSE, r)]
    /\ semaphore' = Release(semaphore)
    /\ tpc' = [tpc EXCEPT ![t] = "done"]
    /\ finished' = Append(finished, t)
    /\ provider_out' = [provider_out EXCEPT ![t] = [raised |-> FALSE, value |-> r]]
    /\ UNCHANGED <<max_concurrent_searches, rate_limit, last_request_time, now, queries, mpc, wake,
                   admissions, mret>>
    /\ UNCHANGED <<proxyVars, scraperVars>>

\* search, lines 60-62: the provider raises.
ProviderRaise(t) ==
    /\ tpc[t] = "provider"
    /\ provider_out' = [provider_out EXCEPT ![t] = [raised |-> TRUE, value |-> EmptyList]]
    /\ task_result' = [task_result EXCEPT ![t] = SearchOutcome(TRUE, EmptyList)]
    /\ semaphore' = Release(semaphore)
    /\ tpc' = [tpc EXCEPT ![t] = "done"]
    /\ finished' = Append(finished, t)
    /\ UNCHANGED <<max_concurrent_searches, rate_limit, last_request_time, now, queries, mpc, wake,
                   admissions, mret>>
    /\ UNCHANGED <<proxyVars, scraperVars>>

\* asyncio.gather(*tasks), line 86: the tasks' values in the order of tasks.
GatherCompletionOrder(res, fin) == [i \in 1..Len(fin) |-> res[fin[i]].value]

Gather(res, fin) == [i \in DOMAIN res |-> res[i].value]

\* dict(zip(queries, results)), line 89: pairs are inserted left to right, a
\* later pair replaces an earlier one with the same key.
RECURSIVE DictZip(_, _, _)
DictZipKeepFirst(qs, rs, n) ==
    [k \in {qs[i] : i \in 1..n} |->
        rs[CHOOSE i \in 1..n : qs[i] = k /\ \A j \in 1..n : qs[j] = k => i <= j]]

DictZip(qs, rs, n) ==
    IF n = 0 THEN [k \in {} |-> EmptyList]
    ELSE LET d == DictZip(qs, rs, n - 1) IN
         [k \in (DOMAIN d) \cup {qs[n]} |-> IF k = qs[n] THEN rs[n] ELSE d[k]]

Min2(a, b) == IF a < b THEN a ELSE b

\* asyncio.gather(*tasks), line 86: gather is done when every task is.
AnySettled == \E t \in Tasks : tpc[t] = "done"

AllSettled == \A t \in Tasks : tpc[t] = "done"

\* multi_search, lines 86-89: every task has settled; a task that raised
\* makes gather, and so multi_search, raise.
MultiSearchReturn ==
    /\ mpc = "gather"
    /\ AllSettled
    /\ LET results == Gather(task_result, finished) IN
       mret' = IF \E t \in Tasks : task_result[t].raised
               THEN [raised |-> TRUE, value |-> EmptyList]
               ELSE [raised |-> FALSE,
                     value |-> DictZip(queries, results, Min2(Len(queries), Len(results)))]
    /\ mpc' = "returned"
    /\ UNCHANGED <<max_concurrent_searches, rate_limit, semaphore, last_request_time, now, queries,
                   tpc, wake, provider_out, task_result, finished, admissions>>
    /\ UNCHANGED <<proxyVars, scraperVars>>

SearchNext ==
    \/ Tick
    \/ \E qs \in SeqsUpTo(QueryStrings, MaxQueries) : MultiSearchStart(qs)
    \/ \E t \in Tasks : Admit(t)
    \/ \E t \in Tasks : Wake(t)
    \/ \E t \in Tasks : \E r \in ProviderAnswers(queries[t]) : ProviderReturn(t, r)
    \/ \E t \in Tasks : ProviderRaise(t)
    \/ MultiSearchReturn

Spec == SearchInit /\ [][SearchNext]_vars

\* search, line 52-53, and _rate_limit, line 33: with rate_limit = 0 the
\* division 1.0 / self.rate_limit raises ZeroDivisionError. _rate_limit is
\* called inside `async with self.semaphore` and outside the try, so the call
\* takes a slot, gives it back and raises, without suspending in between.
RateLimitRaise(t) ==
    /\ mpc \in {"gather", "returned"}
    /\ tpc[t] = "waiting"
    /\ rate_limit = 0
    /\ SemaphoreFree
    /\ semaphore' = Release(semaphore - 1)
    /\ task_result' = [task_result EXCEPT ![t] = [raised |-> TRUE, value |-> EmptyList]]
    /\ tpc' = [tpc EXCEPT ![t] = "done"]
    /\ finished' = Append(finished, t)
    /\ UNCHANGED <<max_concurrent_searches, rate_limit, last_request_time, now, queries,
                   mpc, wake, provider_out, admissions, mret>>
    /\ UNCHANGED <<proxyVars, scraperVars>>

\* multi_search, line 86: a search task ended with an exception; gather
\* raises it in multi_search at once, and the other tasks run on.
MultiSearchRaise ==
    /\ mpc = "gather"
    /\ \E t \in Tasks : tpc[t] = "done" /\ task_result[t].raised
    /\ mret' = [raised |-> TRUE, value |-> EmptyList]
    /\ mpc' = "returned"
    /\ UNCHANGED <<max_concurrent_searches, rate_limit, semaphore, last_request_time, now, queries,
                   tpc, wake, provider_out, task_result, finished, admissions>>
    /\ UNCHANGED <<proxyVars, scraperVars>>

PacingNext ==
    \/ SearchNext
    \/ \E t \in Tasks : RateLimitRaise(t)
    \/ MultiSearchRaise

\* The gate of a FastWebSearch built with any rate_limit, 0 too.
SpecPacing == GateInit({0, 1}) /\ [][PacingNext]_vars

\* asyncio.sleep, line 34: the clock does not stop under a sleeping task.
\* Tick ends at MaxTime; past it the clock runs on for as long as a task is
\* still to wake, so that every sleep of the model ends as every sleep of
\* the program does.
TickPastBound ==
    /\ now >= MaxTime
    /\ \E t \in Tasks : tpc[t] = "sleeping" /\ now < wake[t]
    /\ now' = now + 1
    /\ UNCHANGED <<max_concurrent_searches, rate_limit, semaphore, last_request_time, queries, mpc,
                   tpc, wake, provider_out, task_result, finished, admissions, mret>>
    /\ UNCHANGED <<proxyVars, scraperVars>>

\* search, lines 55-62: the provider call of task t ends, either way. What
\* the provider answers does not reach the gate: here it is the empty list
\* or an exception.
ProviderEnds(t) ==
    /\ t \in Tasks
    /\ \/ ProviderReturn(t, EmptyList)
       \/ ProviderRaise(t)

\* multi_search, lines 80-86: a batch of n queries; the gate sees how many
\* there are, not what they say.
Batch(n) == [i \in 1..n |-> "a"]

FairNext ==
    \/ Tick
    \/ TickPastBound
    \/ \E n \in 0..MaxQueries : MultiSearchStart(Batch(n))
    \/ \E t \in Tasks : Admit(t)
    \/ \E t \in Tasks : Wake(t)
    \/ \E t \in Tasks : ProviderEnds(t)
    \/ MultiSearchReturn

\* The event loop runs every coroutine that is ready: a search that can
\* take a slot takes it, a sleep that is over returns, a gather whose tasks
\* are done returns; the clock runs; and every provider call ends.
Fairness ==
    /\ WF_vars(Tick)
    /\ WF_vars(TickPastBound)
    /\ \A t \in 1..MaxQueries : WF_vars(t \in Tasks /\ Admit(t))
    /\ \A t \in 1..MaxQueries : WF_vars(t \in Tasks /\ Wake(t))
    /\ \A t \in 1..MaxQueries : WF_vars(ProviderEnds(t))
    /\ WF_vars(MultiSearchReturn)

\* The gate under the scheduling of the event loop.
SpecFair == SearchInit /\ [][FairNext]_vars /\ Fairness

\* =========================================================== ProxyManager
\* get_proxy, line 94: it probes sorted_proxies[:3].
TopN == 3

\* The largest pool given to ProxyManager: one proxy more than get_proxy
\* probes, so that the slice cuts.
MaxProxies == TopN + 1

ResponseTimes == {1, 2}      \* response_time of a successful probe, in ticks

\* The state of the search gate while the proxy pool is the subject.
SearchIdle ==
    /\ max_concurrent_searches = 1
    /\ rate_limit = 1
    /\ semaphore = 1
    /\ last_request_time = 0
    /\ queries = <<>>
    /\ mpc = "idle"
    /\ tpc = <<>>
    /\ wake = <<>>
    /\ provider_out = <<>>
    /\ task_result = <<>>
    /\ finished = <<>>
    /\ admissions = <<>>
    /\ mret = NoResult

\* __init__, lines 21-29: the record of a proxy; avg_response_time is kept
\* as an exact fraction <<numerator, denominator>>.
NewStats == [success_count |-> 0, fail_count |-> 0, avg_response_time |-> <<0, 1>>,
             last_used |-> -1, last_verified |-> -1]

\* No call has reported anything on a proxy yet.
NoCalls == [success |-> 0, fail |-> 0]

\* ProxyManager.__init__, lines 17-29.
ProxyInit ==
    /\ SearchIdle
    /\ FetchIdle
    /\ CacheIdle
    /\ IdentityIdle
    /\ now = 0
    /\ proxies \in {[i \in 1..n |-> i] : n \in 0..MaxProxies}
    /\ working_proxies = proxies
    /\ proxy_stats = [p \in DOMAIN proxies |-> NewStats]
    /\ last_used = [p \in DOMAIN proxies |-> -1]
    /\ gpc = "idle"
    /\ sorted_proxies = <<>>
    /\ gidx = 0
    /\ fb_tasks = <<>>
    /\ fb_results = <<>>
    /\ gret = 0
    /\ probed = <<>>
    /\ last_exception = ""
    /\ calls = [p \in DOMAIN proxies |-> NoCalls]

RECURSIVE SumCounts(_, _)
SumCounts(stats, n) ==
    IF n = 0 THEN 0
    ELSE stats[n].success_count + stats[n].fail_count + SumCounts(stats, n - 1)

\* The model counts at most MaxEvents successes and failures in all.
CanCount == SumCounts(proxy_stats, Len(proxies)) < MaxEvents

RECURSIVE GCD(_, _)
GCD(a, b) == IF b = 0 THEN a ELSE GCD(b, a % b)

Reduced(f) == LET g == GCD(f[1], f[2]) IN <<f[1] \div g, f[2] \div g>>

\* verify_proxy, lines 60-63: (avg * (n - 1) + response_time) / n, n the new
\* success_count.
UpdateAvg(avg, n, response_time) ==
    Reduced(<<avg[1] * (n - 1) + response_time * avg[2], avg[2] * n>>)

\* What a probe can do: answer 200 after rt ticks, answer another status,
\* or fail with an exception (transport error, timeout).
ProbeOutcomes ==
    {[kind |-> "ok", rt |-> r] : r \in ResponseTimes}
        \cup {[kind |-> "non200", rt |-> 0], [kind |-> "exception", rt |-> 0]}

\* The outcomes the event bound still lets the model explore.
Probes == IF CanCount THEN ProbeOutcomes ELSE {[kind |-> "non200", rt |-> 0]}

\* verify_proxy, lines 45-71: the record of the proxy after the probe. A
\* status other than 200 leaves the try block without an exception and
\* reaches the final `return False`: nothing is counted.
VerifyStatsOverwrite(st, o, time) ==
    IF o.kind = "ok"
    THEN [st EXCEPT !.success_count = 1,
                    !.avg_response_time = UpdateAvg(@, 1, o.rt),
                    !.last_verified = time]
    ELSE IF o.kind = "exception"
    THEN [st EXCEPT !.fail_count = @ + 1]
    ELSE st

VerifyStats(st, o, time) ==
    IF o.kind = "ok"
    THEN [st EXCEPT !.success_count = @ + 1,
                    !.avg_response_time = UpdateAvg(@, st.success_count + 1, o.rt),
                    !.last_verified = time]
    ELSE IF o.kind = "exception"
    THEN [st EXCEPT !.fail_count = @ + 1]
    ELSE st

\* verify_proxy: its return value.
VerifyReturn(o) == o.kind = "ok"

Str(b) == IF b THEN "True" ELSE "False"

\* datetime.now() in the pool: every read that stamps a field returns an
\* instant later than the reads before it.
ClockRead(k) == now + k

\* The calls on a proxy after a verify_proxy whose probe did o: a probe
\* answered with 200 is a successful verify, one that raised is a failed
\* verify that raised.
Verified(c, o) ==
    IF o.kind = "ok" THEN [c EXCEPT !.success = @ + 1]
    ELSE IF o.kind = "exception" THEN [c EXCEPT !.fail = @ + 1]
    ELSE c

\* verify_proxy called on its own on a registered proxy; the probe is the
\* only suspension, and everything after it runs at once.
VerifyProxy(p, o) ==
    /\ proxy_stats' = [proxy_stats EXCEPT ![p] = VerifyStats(@, o, ClockRead(1))]
    /\ calls' = [calls EXCEPT ![p] = Verified(@, o)]
    /\ now' = IF VerifyReturn(o) THEN ClockRead(1) ELSE now
    /\ UNCHANGED <<proxies, working_proxies, last_used, gpc, sorted_proxies, gidx,
                   fb_tasks, fb_results, gret, probed>>
    /\ UNCHANGED last_exception
    /\ UNCHANGED <<gateVars, scraperVars>>

\* mark_proxy_failed, lines 125-127: success_rate < 0.5, with
\* success_rate = success_count / (success_count + fail_count).
BelowOrAtThreshold(st) == 2 * st.success_count <= st.success_count + st.fail_count

BelowThreshold(st) == 2 * st.success_count < st.success_count + st.fail_count

\* list.remove: the first occurrence goes.
RemoveHead(l, p) == Tail(l)

Remove(l, p) ==
    LET i == CHOOSE k \in DOMAIN l : l[k] = p /\ \A j \in 1..(k - 1) : l[j] # p
    IN  SubSeq(l, 1, i - 1) \o SubSeq(l, i + 1, Len(l))

\* mark_proxy_failed, lines 116-128. list.remove raises ValueError when the
\* proxy is not in the list; the failure is counted before that.
MarkProxyFailed(p) ==
    /\ CanCount
    /\ LET st == [proxy_stats[p] EXCEPT !.fail_count = @ + 1] IN
       /\ proxy_stats' = [proxy_stats EXCEPT ![p] = st]
       /\ calls' = [calls EXCEPT ![p].fail = @ + 1]
       /\ IF BelowThreshold(st)
          THEN IF p \in Range(working_proxies)
               THEN /\ working_proxies' = Remove(working_proxies, p)
                    /\ last_exception' = ""
               ELSE /\ working_proxies' = working_proxies
                    /\ last_exception' = "ValueError"
          ELSE /\ working_proxies' = working_proxies
               /\ last_exception' = ""
    /\ UNCHANGED <<proxies, last_used, gpc, sorted_proxies, gidx, fb_tasks, fb_results,
                   gret, probed>>
    /\ UNCHANGED <<gateVars, now, scraperVars>>

\* mark_proxy_success, lines 130-138.
MarkProxySuccess(p) ==
    /\ CanCount
    /\ proxy_stats' = [proxy_stats EXCEPT ![p].success_count = @ + 1]
    /\ calls' = [calls EXCEPT ![p].success = @ + 1]
    /\ UNCHANGED <<proxies, working_proxies, last_used, gpc, sorted_proxies, gidx,
                   fb_tasks, fb_results, gret, probed>>
    /\ UNCHANGED last_exception
    /\ UNCHANGED <<gateVars, now, scraperVars>>

\* get_proxy, lines 86-89: the sort key of p is
\* (success_count / (success_count + fail_count + 1), -avg_response_time);
\* KeyGreater is key(p) > key(q), fractions compared by cross-multiplication.
RatioGreater(a, b) ==
    a.success_count * (b.success_count + b.fail_count + 1)
        > b.success_count * (a.success_count + a.fail_count + 1)

RatioEqual(a, b) ==
    a.success_count * (b.success_count + b.fail_count + 1)
        = b.success_count * (a.success_count + a.fail_count + 1)

AvgLess(x, y) == x[1] * y[2] < y[1] * x[2]

KeyGreater(stats, p, q) ==
    \/ RatioGreater(stats[p], stats[q])
    \/ /\ RatioEqual(stats[p], stats[q])
       /\ AvgLess(stats[p].avg_response_time, stats[q].avg_response_time)

\* sorted(..., reverse=True), lines 84-91: descending and stable, proxies
\* with equal keys keep the order they have in the list.
RECURSIVE SortedAscending(_, _)
SortedAscending(stats, l) ==
    IF l = <<>> THEN <<>>
    ELSE LET s == SortedAscending(stats, SubSeq(l, 1, Len(l) - 1))
             p == l[Len(l)]
             k == Cardinality({i \in DOMAIN s : ~KeyGreater(stats, s[i], p)})
         IN  SubSeq(s, 1, k) \o <<p>> \o SubSeq(s, k + 1, Len(s))

RECURSIVE SortedDescending(_, _)
SortedDescending(stats, l) ==
    IF l = <<>> THEN <<>>
    ELSE LET s == SortedDescending(stats, SubSeq(l, 1, Len(l) - 1))
             p == l[Len(l)]
             k == Cardinality({i \in DOMAIN s : ~KeyGreater(stats, p, s[i])})
         IN  SubSeq(s, 1, k) \o <<p>> \o SubSeq(s, k + 1, Len(s))

\* sorted_proxies[:3], line 94.
Top(l) == SubSeq(l, 1, Min2(TopN, Len(l)))

\* get_proxy, lines 80-94: the empty pool gives None; otherwise the pool is
\* ranked and the probe of the best proxy begins.
GetProxyStart ==
    /\ gpc = "idle"
    /\ IF working_proxies = <<>>
       THEN /\ gret' = 0
            /\ gpc' = "returned"
            /\ UNCHANGED <<sorted_proxies, gidx>>
       ELSE /\ sorted_proxies' = Top(SortedDescending(proxy_stats, working_proxies))
            /\ gidx' = 1
            /\ gpc' = "probe"
            /\ UNCHANGED gret
    /\ probed' = <<>>
    /\ UNCHANGED <<proxies, working_proxies, proxy_stats, last_used, fb_tasks, fb_results>>
    /\ UNCHANGED <<last_exception, calls>>
    /\ UNCHANGED <<gateVars, now, scraperVars>>

\* get_proxy, lines 94-101: the probe of sorted_proxies[gidx] ends. A proxy
\* that verifies is stamped and returned; after the last candidate the
\* verify_proxy calls of the fallback are created over working_proxies as it
\* is then.
GetProxyProbe(o) ==
    /\ gpc = "probe"
    /\ LET p == sorted_proxies[gidx] IN
       /\ proxy_stats' = [proxy_stats EXCEPT ![p] = VerifyStats(@, o, ClockRead(1))]
       /\ calls' = [calls EXCEPT ![p] = Verified(@, o)]
       /\ now' = IF VerifyReturn(o) THEN ClockRead(2) ELSE now
       /\ probed' = Append(probed, p)
       /\ IF VerifyReturn(o)
          THEN /\ last_used' = [last_used EXCEPT ![p] = ClockRead(2)]
               /\ gret' = p
               /\ gpc' = "returned"
               /\ UNCHANGED <<gidx, fb_tasks, fb_results>>
          ELSE IF gidx < Len(sorted_proxies)
          THEN /\ gidx' = gidx + 1
               /\ UNCHANGED <<last_used, gret, gpc, fb_tasks, fb_results>>
          ELSE /\ fb_tasks' = working_proxies
               /\ fb_results' = [i \in DOMAIN working_proxies |-> "pending"]
               /\ gpc' = "fallback"
               /\ UNCHANGED <<last_used, gret, gidx>>
    /\ UNCHANGED <<proxies, working_proxies, sorted_proxies>>
    /\ UNCHANGED last_exception
    /\ UNCHANGED <<gateVars, scraperVars>>

\* get_proxy, lines 100-101: one of the gathered verify_proxy calls ends.
GetProxyFallbackVerify(i, o) ==
    /\ gpc = "fallback"
    /\ fb_results[i] = "pending"
    /\ proxy_stats' = [proxy_stats EXCEPT ![fb_tasks[i]] = VerifyStats(@, o, ClockRead(1))]
    /\ calls' = [calls EXCEPT ![fb_tasks[i]] = Verified(@, o)]
    /\ now' = IF VerifyReturn(o) THEN ClockRead(1) ELSE now
    /\ fb_results' = [fb_results EXCEPT ![i] = Str(VerifyReturn(o))]
    /\ UNCHANGED <<proxies, working_proxies, last_used, gpc, sorted_proxies, gidx,
                   fb_tasks, gret, probed>>
    /\ UNCHANGED last_exception
    /\ UNCHANGED <<gateVars, scraperVars>>

\* get_proxy, lines 104-107: zip(self.working_proxies, results) pairs the
\* list as it is after the gather with the results by position and keeps
\* the proxies paired with True.
RECURSIVE Pruned(_, _, _)
Pruned(wp, results, n) ==
    IF n = 0 THEN <<>>
    ELSE IF results[n] = "True" THEN Append(Pruned(wp, results, n - 1), wp[n])
    ELSE Pruned(wp, results, n - 1)

\* get_proxy, lines 101-114: the gather is over; prune the list and return
\* its first proxy, stamped, or None.
GetProxyFallbackFinish ==
    /\ gpc = "fallback"
    /\ \A i \in DOMAIN fb_results : fb_results[i] # "pending"
    /\ LET kept == Pruned(working_proxies, fb_results,
                          Min2(Len(working_proxies), Len(fb_results))) IN
       /\ working_proxies' = kept
       /\ IF kept # <<>>
          THEN /\ last_used' = [last_used EXCEPT ![kept[1]] = ClockRead(1)]
               /\ now' = ClockRead(1)
               /\ gret' = kept[1]
          ELSE /\ gret' = 0
               /\ UNCHANGED <<last_used, now>>
    /\ gpc' = "returned"
    /\ UNCHANGED <<proxies, proxy_stats, sorted_proxies, gidx, fb_tasks, fb_results,
                   probed>>
    /\ UNCHANGED <<last_exception, calls>>
    /\ UNCHANGED <<gateVars, scraperVars>>

\* The caller of get_proxy has its answer and may call again.
GetProxyDone ==
    /\ gpc = "returned"
    /\ gpc' = "idle"
    /\ sorted_proxies' = <<>>
    /\ gidx' = 0
    /\ fb_tasks' = <<>>
    /\ fb_results' = <<>>
    /\ gret' = 0
    /\ probed' = <<>>
    /\ UNCHANGED <<proxies, working_proxies, proxy_stats, last_used>>
    /\ UNCHANGED <<last_exception, calls>>
    /\ UNCHANGED <<gateVars, now, scraperVars>>

ProxyNext ==
    \/ \E p \in Range(proxies) : \E o \in Probes : VerifyProxy(p, o)
    \/ \E p \in Range(proxies) : MarkProxyFailed(p)
    \/ \E p \in Range(proxies) : MarkProxySuccess(p)
    \/ GetProxyStart
    \/ \E o \in Probes : GetProxyProbe(o)
    \/ \E i \in DOMAIN fb_results : \E o \in Probes : GetProxyFallbackVerify(i, o)
    \/ GetProxyFallbackFinish
    \/ GetProxyDone

SpecProxy == ProxyInit /\ [][ProxyNext]_vars

\* ====================================== allowed_by_robots, fetch, scrape_urls
\* Threads started with asyncio.to_thread run allowed_by_robots beside the
\* event loop and beside each other: a thread can be switched out between
\* any two lines, and is while it waits for the network in rp.read().
Origins == {"http://h1", "http://h2"}

Paths == {"/a", "/private"}

\* A URL, as urlparse splits it (line 18).
Urls == [origin : Origins, path : Paths]

\* base_url, line 19.
BaseUrl(url) == url.origin

\* rp = None, line 28.
ParserNone == [kind |-> "None", disallow_all |-> FALSE, allow_all |-> FALSE,
               last_checked |-> FALSE, disallowed |-> {}]

\* urllib.robotparser.RobotFileParser(), line 22: nothing read yet.
ParserNew == [kind |-> "RobotFileParser", disallow_all |-> FALSE, allow_all |-> FALSE,
              last_checked |-> FALSE, disallowed |-> {}]

\* The robots documents an origin can serve: the paths they disallow.
Rulesets == {{}, {"/private"}}

\* What rp.read() can do, line 25: urlopen or the decoding raises; the
\* document arrives and is parsed; or the server answers with an HTTP error
\* status, which read() handles itself without raising.
ReadOutcomes ==
    {[kind |-> "raised", rules |-> {}], [kind |-> "http_401_403", rules |-> {}],
     [kind |-> "http_4xx", rules |-> {}], [kind |-> "http_5xx", rules |-> {}]}
        \cup {[kind |-> "parsed", rules |-> d] : d \in Rulesets}

\* Lines 22-28: the local rp after the try statement.
AfterRead(o) ==
    IF o.kind = "raised" THEN ParserNone
    ELSE IF o.kind = "parsed"
    THEN [ParserNew EXCEPT !.last_checked = TRUE, !.disallowed = o.rules]
    ELSE IF o.kind = "http_401_403" THEN [ParserNew EXCEPT !.disallow_all = TRUE]
    ELSE IF o.kind = "http_4xx" THEN [ParserNew EXCEPT !.allow_all = TRUE]
    ELSE ParserNew

\* rp.can_fetch(user_agent, url), line 32.
CanFetch(parser, url) ==
    IF parser.disallow_all THEN FALSE
    ELSE IF parser.allow_all THEN TRUE
    ELSE IF ~parser.last_checked THEN FALSE
    ELSE url.path \notin parser.disallowed

\* Lines 30-33: the answer from the stored parser.
Answer(parsers, url) ==
    LET parser == parsers[BaseUrl(url)] IN
    IF parser.kind # "None" THEN CanFetch(parser, url) ELSE TRUE

\* _robot_parsers[base_url] = rp, line 29.
Store(parsers, k, v) == [o \in (DOMAIN parsers) \cup {k} |-> IF o = k THEN v ELSE parsers[o]]

\* An argument the call does not pass, and Python's None.
Missing == "<missing>"

None == "None"

\* ScrapeResult(...), models.py lines 34-42: url and content have no default,
\* so a call without content raises TypeError.
ScrapeResult(url, content, error) ==
    IF content = Missing
    THEN [raised |-> TRUE, exc |-> "TypeError",
          result |-> [url |-> url, content |-> Missing, error |-> error]]
    ELSE [raised |-> FALSE, exc |-> "",
          result |-> [url |-> url, content |-> content, error |-> error]]

NoFetchResult == [raised |-> FALSE, exc |-> "",
                  result |-> [url |-> None, content |-> Missing, error |-> None]]

Bodies == {"body1", "body2"}     \* what response.text() can give

Fetches == DOMAIN fpc

ScrapeInit ==
    /\ SearchIdle
    /\ now = 0
    /\ ProxyIdle
    /\ CacheIdle
    /\ IdentityIdle
    /\ robot_parsers = <<>>
    /\ robots_reads = [o \in Origins |-> 0]
    /\ urls = <<>>
    /\ max_retries = 0
    /\ spc = "idle"
    /\ sret = NoBatch
    /\ fpc = <<>>
    /\ allowed = <<>>
    /\ attempt = <<>>
    /\ backoff = <<>>
    /\ selections = <<>>
    /\ gets = <<>>
    /\ sleeps = <<>>
    /\ fres = <<>>

\* scrape_urls, lines 61-66: one fetch per url, gathered. Each fetch runs to
\* its first await, which starts its allowed_by_robots thread (line 40).
ScrapeStart(us, n) ==
    /\ spc = "idle"
    /\ urls' = us
    /\ max_retries' = n
    /\ fpc' = [i \in DOMAIN us |-> "lookup"]
    /\ allowed' = [i \in DOMAIN us |-> FALSE]
    /\ attempt' = [i \in DOMAIN us |-> 0]
    /\ backoff' = [i \in DOMAIN us |-> 0]
    /\ selections' = [i \in DOMAIN us |-> 0]
    /\ gets' = [i \in DOMAIN us |-> 0]
    /\ sleeps' = [i \in DOMAIN us |-> <<>>]
    /\ fres' = [i \in DOMAIN us |-> NoFetchResult]
    /\ spc' = "gather"
    /\ UNCHANGED <<robot_parsers, robots_reads, sret>>
    /\ UNCHANGED <<gateVars, now, proxyVars, cacheVars, identityVars>>

\* allowed_by_robots, line 20, in the thread of fetch i: with a parser stored
\* for the origin the thread answers from it (lines 30-33); without one it
\* goes on to fetch the document (lines 21-25).
RobotsLookup(i) ==
    /\ fpc[i] = "lookup"
    /\ IF BaseUrl(urls[i]) \in DOMAIN robot_parsers
       THEN /\ allowed' = [allowed EXCEPT ![i] = Answer(robot_parsers, urls[i])]
            /\ fpc' = [fpc EXCEPT ![i] = "checked"]
            /\ UNCHANGED robots_reads
       ELSE /\ robots_reads' = [robots_reads EXCEPT ![BaseUrl(urls[i])] = @ + 1]
            /\ fpc' = [fpc EXCEPT ![i] = "read"]
            /\ UNCHANGED allowed
    /\ UNCHANGED <<robot_parsers, urls, max_retries, spc, sret, attempt, backoff,
                   selections, gets, sleeps, fres>>
    /\ UNCHANGED <<gateVars, now, proxyVars, cacheVars, identityVars>>

\* Lines 25-29: rp.read() is over and the thread stores its rp.
RobotsRead(i, o) ==
    /\ fpc[i] = "read"
    /\ robot_parsers' = Store(robot_parsers, BaseUrl(urls[i]), AfterRead(o))
    /\ fpc' = [fpc EXCEPT ![i] = "answer"]
    /\ UNCHANGED <<robots_reads, urls, max_retries, spc, sret, allowed, attempt, backoff,
                   selections, gets, sleeps, fres>>
    /\ UNCHANGED <<gateVars, now, proxyVars, cacheVars, identityVars>>

\* Lines 30-33: the thread reads the stored parser back and answers.
RobotsAnswer(i) ==
    /\ fpc[i] = "answer"
    /\ allowed' = [allowed EXCEPT ![i] = Answer(robot_parsers, urls[i])]
    /\ fpc' = [fpc EXCEPT ![i] = "checked"]
    /\ UNCHANGED <<robot_parsers, robots_reads, urls, max_retries, spc, sret, attempt,
                   backoff, selections, gets, sleeps, fres>>
    /\ UNCHANGED <<gateVars, now, proxyVars, cacheVars, identityVars>>

\* fetch, lines 40-48: the thread has answered. A disallowed url ends the
\* fetch with ScrapeResult(url=url, error=...); an allowed one sets backoff,
\* takes a proxy and issues the first GET.
FetchChecked(i) ==
    /\ fpc[i] = "checked"
    /\ IF ~allowed[i]
       THEN /\ fres' = [fres EXCEPT ![i] =
                           ScrapeResult(urls[i], Missing, "Disallowed by robots.txt")]
            /\ fpc' = [fpc EXCEPT ![i] = "done"]
            /\ UNCHANGED <<backoff, selections, gets>>
       ELSE /\ backoff' = [backoff EXCEPT ![i] = 1]
            /\ selections' = [selections EXCEPT ![i] = @ + 1]
            /\ gets' = [gets EXCEPT ![i] = @ + 1]
            /\ fpc' = [fpc EXCEPT ![i] = "get"]
            /\ UNCHANGED fres
    /\ UNCHANGED <<robot_parsers, robots_reads, urls, max_retries, spc, sret, allowed,
                   attempt, sleeps>>
    /\ UNCHANGED <<gateVars, now, proxyVars, cacheVars, identityVars>>

\* Lines 48-50: a response arrives and its text is returned as the content,
\* whatever its status.
FetchGetOk(i, text) ==
    /\ fpc[i] = "get"
    /\ fres' = [fres EXCEPT ![i] = ScrapeResult(urls[i], text, None)]
    /\ fpc' = [fpc EXCEPT ![i] = "done"]
    /\ UNCHANGED <<robot_parsers, robots_reads, urls, max_retries, spc, sret, allowed,
                   attempt, backoff, selections, gets, sleeps>>
    /\ UNCHANGED <<gateVars, now, proxyVars, cacheVars, identityVars>>

\* Lines 51-53: the GET raises; the fetch sleeps for backoff.
FetchGetFail(i) ==
    /\ fpc[i] = "get"
    /\ sleeps' = [sleeps EXCEPT ![i] = Append(@, backoff[i])]
    /\ fpc' = [fpc EXCEPT ![i] = "sleep"]
    /\ UNCHANGED <<robot_parsers, robots_reads, urls, max_retries, spc, sret, allowed,
                   attempt, backoff, selections, gets, fres>>
    /\ UNCHANGED <<gateVars, now, proxyVars, cacheVars, identityVars>>

\* Lines 54-55 and 45-48: the sleep is over; backoff doubles and the loop
\* goes on with the next proxy, or ends with
\* ScrapeResult(url=url, error="Failed after retries").
FetchWake(i) ==
    /\ fpc[i] = "sleep"
    /\ backoff' = [backoff EXCEPT ![i] = @ * 2]
    /\ attempt' = [attempt EXCEPT ![i] = @ + 1]
    /\ IF attempt[i] + 1 < max_retries
       THEN /\ selections' = [selections EXCEPT ![i] = @ + 1]
            /\ gets' = [gets EXCEPT ![i] = @ + 1]
            /\ fpc' = [fpc EXCEPT ![i] = "get"]
            /\ UNCHANGED fres
       ELSE /\ fres' = [fres EXCEPT ![i] =
                           ScrapeResult(urls[i], Missing, "Failed after retries")]
            /\ fpc' = [fpc EXCEPT ![i] = "done"]
            /\ UNCHANGED <<selections, gets>>
    /\ UNCHANGED <<robot_parsers, robots_reads, urls, max_retries, spc, sret, allowed,
                   sleeps>>
    /\ UNCHANGED <<gateVars, now, proxyVars, cacheVars, identityVars>>

\* Lines 66-67: every fetch returned; gather gives their results in the
\* order of urls.
ScrapeReturn ==
    /\ spc = "gather"
    /\ \A i \in Fetches : fpc[i] = "done" /\ ~fres[i].raised
    /\ sret' = [raised |-> FALSE, exc |-> "", value |-> [i \in Fetches |-> fres[i].result]]
    /\ spc' = "returned"
    /\ UNCHANGED <<robot_parsers, robots_reads, urls, max_retries, fpc, allowed, attempt,
                   backoff, selections, gets, sleeps, fres>>
    /\ UNCHANGED <<gateVars, now, proxyVars, cacheVars, identityVars>>

\* Line 66: a fetch raised; gather, called without return_exceptions, raises
\* that exception in scrape_urls at once, and the other fetches run on.
ScrapeRaise ==
    /\ spc = "gather"
    /\ \E i \in Fetches :
          /\ fpc[i] = "done"
          /\ fres[i].raised
          /\ sret' = [raised |-> TRUE, exc |-> fres[i].exc, value |-> <<>>]
    /\ spc' = "returned"
    /\ UNCHANGED <<robot_parsers, robots_reads, urls, max_retries, fpc, allowed, attempt,
                   backoff, selections, gets, sleeps, fres>>
    /\ UNCHANGED <<gateVars, now, proxyVars, cacheVars, identityVars>>

\* The caller has its answer, every fetch has ended, and scrape_urls may be
\* called again; _robot_parsers lives on.
ScrapeDone ==
    /\ spc = "returned"
    /\ \A i \in Fetches : fpc[i] = "done"
    /\ urls' = <<>>
    /\ max_retries' = 0
    /\ spc' = "idle"
    /\ sret' = NoBatch
    /\ fpc' = <<>>
    /\ allowed' = <<>>
    /\ attempt' = <<>>
    /\ backoff' = <<>>
    /\ selections' = <<>>
    /\ gets' = <<>>
    /\ sleeps' = <<>>
    /\ fres' = <<>>
    /\ UNCHANGED <<robot_parsers, robots_reads>>
    /\ UNCHANGED <<gateVars, now, proxyVars, cacheVars, identityVars>>

ScrapeNext ==
    \/ \E us \in SeqsUpTo(Urls, MaxUrls) : \E n \in 1..MaxRetries : ScrapeStart(us, n)
    \/ \E i \in Fetches : RobotsLookup(i)
    \/ \E i \in Fetches : \E o \in ReadOutcomes : RobotsRead(i, o)
    \/ \E i \in Fetches : RobotsAnswer(i)
    \/ \E i \in Fetches : FetchChecked(i)
    \/ \E i \in Fetches : \E text \in Bodies : FetchGetOk(i, text)
    \/ \E i \in Fetches : FetchGetFail(i)
    \/ \E i \in Fetches : FetchWake(i)
    \/ ScrapeReturn
    \/ ScrapeRaise
    \/ ScrapeDone

SpecScrape == ScrapeInit /\ [][ScrapeNext]_vars

\* ============================================================== WebScraper
\* get_page_content is called by Callers, each with one call at a time; the
\* clock is `now`, advanced by Tick.
Callers == {1, 2}

PageUrls == {u \in Urls : u.path = "/a"}

Html == {"<p>v1</p>", "<p>v2</p>"}       \* what response.text() can give

\* BeautifulSoup(html, 'html.parser').get_text(), lines 132-133: the text
\* without the markup.
GetText(html) == IF html = "<p>v1</p>" THEN "v1" ELSE "v2"

NoContent == [raised |-> FALSE, exc |-> "", value |-> ""]

\* WebScraper.__init__, lines 74-79.
CacheInit ==
    /\ SearchIdle
    /\ ProxyIdle
    /\ FetchIdle
    /\ IdentityIdle
    /\ now = 0
    /\ cache_ttl \in 0..MaxTtl
    /\ max_connections \in 1..MaxConnections
    /\ connections = max_connections
    /\ cache = <<>>
    /\ cpc = [c \in Callers |-> "idle"]
    /\ curl = [c \in Callers |-> CHOOSE u \in PageUrls : TRUE]
    /\ transport = [c \in Callers |-> 0]
    /\ cres = [c \in Callers |-> NoContent]

\* Line 115: datetime.now() - timestamp < timedelta(seconds=self.cache_ttl).
FreshOrJustExpired(timestamp) == now - timestamp <= cache_ttl

Fresh(timestamp) == now - timestamp < cache_ttl

\* Lines 113-116: the cache answers the call.
CacheHit(url, use_cache) == use_cache /\ url \in DOMAIN cache /\ Fresh(cache[url][2])

\* self.cache[url] = (content, datetime.now()), line 136.
CachePut(c, url, entry) == [u \in (DOMAIN c) \cup {url} |-> IF u = url THEN entry ELSE c[u]]

\* What the GET can do: a response with a status and a body, or an
\* exception of the transport.
GetOutcomes ==
    {[kind |-> k, html |-> h] : k \in {"200", "non200"}, h \in Html}
        \cup {[kind |-> "error", html |-> ""]}

\* Lines 130-141: the cache after the response; only a 200 is stored.
StoreAnyStatus(c, url, o, time) ==
    IF o.kind # "error" THEN CachePut(c, url, <<GetText(o.html), time>>) ELSE c

AfterGet(c, url, o, time) ==
    IF o.kind = "200" THEN CachePut(c, url, <<GetText(o.html), time>>) ELSE c

\* Lines 130-141: what the call gives: the content, or aiohttp.ClientError
\* (the one raised for a status other than 200 is caught and wrapped at
\* line 141 like any other exception).
GetResult(o) ==
    IF o.kind = "200" THEN [raised |-> FALSE, exc |-> "", value |-> GetText(o.html)]
    ELSE IF o.kind = "non200"
    THEN [raised |-> TRUE, exc |-> "ClientError: Failed to fetch: HTTP status", value |-> ""]
    ELSE [raised |-> TRUE, exc |-> "ClientError: Failed to fetch", value |-> ""]

\* get_page_content, lines 112-129, up to the first suspension: a fresh
\* entry is returned; otherwise the call enters the semaphore and issues its
\* GET, or waits for a slot.
GetPageContentStart(c, url, use_cache) ==
    /\ cpc[c] = "idle"
    /\ curl' = [curl EXCEPT ![c] = url]
    /\ IF CacheHit(url, use_cache)
       THEN /\ cres' = [cres EXCEPT ![c] = [raised |-> FALSE, exc |-> "",
                                            value |-> cache[url][1]]]
            /\ cpc' = [cpc EXCEPT ![c] = "done"]
            /\ UNCHANGED <<connections, transport>>
       ELSE IF connections > 0
       THEN /\ connections' = connections - 1
            /\ transport' = [transport EXCEPT ![c] = @ + 1]
            /\ cpc' = [cpc EXCEPT ![c] = "get"]
            /\ UNCHANGED cres
       ELSE /\ cpc' = [cpc EXCEPT ![c] = "waiting"]
            /\ UNCHANGED <<connections, transport, cres>>
    /\ UNCHANGED <<cache_ttl, max_connections, cache>>
    /\ UNCHANGED <<gateVars, now, proxyVars, fetchVars, identityVars>>

\* Lines 127-129: a slot is free; the waiting call takes it and issues its GET.
ConnectionAcquire(c) ==
    /\ cpc[c] = "waiting"
    /\ connections > 0
    /\ connections' = connections - 1
    /\ transport' = [transport EXCEPT ![c] = @ + 1]
    /\ cpc' = [cpc EXCEPT ![c] = "get"]
    /\ UNCHANGED <<cache_ttl, max_connections, cache, curl, cres>>
    /\ UNCHANGED <<gateVars, now, proxyVars, fetchVars, identityVars>>

\* Lines 129-141: the GET is over; the call stores and returns the content
\* or raises, and leaves the semaphore.
GetPageContentEnd(c, o) ==
    /\ cpc[c] = "get"
    /\ cache' = AfterGet(cache, curl[c], o, now)
    /\ cres' = [cres EXCEPT ![c] = GetResult(o)]
    /\ connections' = connections + 1
    /\ cpc' = [cpc EXCEPT ![c] = "done"]
    /\ UNCHANGED <<cache_ttl, max_connections, curl, transport>>
    /\ UNCHANGED <<gateVars, now, proxyVars, fetchVars, identityVars>>

\* The caller has its answer and may call again.
GetPageContentDone(c) ==
    /\ cpc[c] = "done"
    /\ cpc' = [cpc EXCEPT ![c] = "idle"]
    /\ transport' = [transport EXCEPT ![c] = 0]
    /\ cres' = [cres EXCEPT ![c] = NoContent]
    /\ UNCHANGED <<cache_ttl, max_connections, connections, cache, curl>>
    /\ UNCHANGED <<gateVars, now, proxyVars, fetchVars, identityVars>>

\* clear_cache, lines 143-145.
ClearCache ==
    /\ cache # <<>>
    /\ cache' = <<>>
    /\ UNCHANGED <<cache_ttl, max_connections, connections, cpc, curl, transport, cres>>
    /\ UNCHANGED <<gateVars, now, proxyVars, fetchVars, identityVars>>

CacheNext ==
    \/ Tick
    \/ \E c \in Callers : \E url \in PageUrls : \E use_cache \in BOOLEAN :
          GetPageContentStart(c, url, use_cache)
    \/ \E c \in Callers : ConnectionAcquire(c)
    \/ \E c \in Callers : \E o \in GetOutcomes : GetPageContentEnd(c, o)
    \/ \E c \in Callers : GetPageContentDone(c)
    \/ ClearCache

SpecCache == CacheInit /\ [][CacheNext]_vars

\* ==================================== Proxy and ProxyManager.__init__ on it
\* models.py, lines 21-32: Proxy is declared with a plain @dataclass. The
\* decorator writes an __eq__ that compares all the fields, and, eq being
\* set and frozen not, sets __hash__ to None.
DataclassEq == TRUE

DataclassFrozen == FALSE

Hosts == {"h1", "h2"}

Ports == {8080, 3128}

Protocols == {"http", "socks5"}

\* Proxy(host, port, protocol): the other fields take their defaults;
\* last_used is -1 for None.
NewProxies == [host : Hosts, port : Ports, protocol : Protocols, last_used : {-1}]

\* The identity the pool is meant to key on.
Identity(p) == <<p.host, p.port, p.protocol>>

\* a == b for two Proxy objects: the generated __eq__, or object identity
\* without it (the model's objects are then told apart by their fields too).
ProxyEq(a, b) == a = b

\* hash(p) for a Proxy.
Hashable == (~DataclassEq) \/ DataclassFrozen

IdentityInit ==
    /\ SearchIdle
    /\ ProxyIdle
    /\ FetchIdle
    /\ CacheIdle
    /\ now = 0
    /\ proxy_objects \in SeqsUpTo(NewProxies, MaxProxyObjects)
    /\ pm_state = "new"
    /\ pm_keys = {}

\* ProxyManager.__init__, proxies.py lines 17-29: the loop stores a record
\* under each proxy; the first store hashes the proxy.
Construct ==
    /\ pm_state = "new"
    /\ IF proxy_objects = <<>> \/ Hashable
       THEN /\ pm_state' = "constructed"
            /\ pm_keys' = Range(proxy_objects)
       ELSE /\ pm_state' = "TypeError"
            /\ pm_keys' = {}
    /\ UNCHANGED proxy_objects
    /\ UNCHANGED <<gateVars, now, proxyVars, fetchVars, cacheVars>>

\* proxy.last_used = datetime.now(), proxies.py lines 96 and 112: a Proxy is
\* mutable and is stamped in place.
Stamp(i) ==
    /\ proxy_objects[i].last_used # ClockRead(1)
    /\ proxy_objects' = [proxy_objects EXCEPT ![i].last_used = ClockRead(1)]
    /\ UNCHANGED <<pm_state, pm_keys>>
    /\ UNCHANGED <<gateVars, now, proxyVars, fetchVars, cacheVars>>

IdentityNext ==
    \/ Construct
    \/ \E i \in DOMAIN proxy_objects : Stamp(i)

SpecIdentity == IdentityInit /\ [][IdentityNext]_vars

\* ------------------------------------------------ claims on FastWebSearch
InFlight == {t \in Tasks : tpc[t] \in {"sleeping", "provider"}}

CallsFor(q) == {i \in Tasks : queries[i] = q}

MaxOf(S) == CHOOSE x \in S : \A y \in S : y <= x

\* Position in `finished` of task t.
FinishPos(t) == CHOOSE i \in DOMAIN finished : finished[i] = t

LastFinished(S) == CHOOSE t \in S : \A u \in S : FinishPos(u) <= FinishPos(t)

\* C1: at most max_concurrent_searches search calls are past the semaphore
\* (admitted and not yet released) in any reachable state.
C1_AtMostKAdmitted ==
    /\ Cardinality(InFlight) <= max_concurrent_searches
    /\ semaphore = max_concurrent_searches - Cardinality(InFlight)

\* The gate is full, with at least two calls inside, and another call waits.
C1_Witness ==
    /\ Cardinality(InFlight) = max_concurrent_searches
    /\ max_concurrent_searches >= 2
    /\ \E t \in Tasks : tpc[t] = "waiting"

\* C2: two consecutive admissions (returns from _rate_limit) are never
\* closer than 1/rate_limit.
C2_AdmissionsSpaced ==
    \A i \in 1..(Len(admissions) - 1) : admissions[i + 1] - admissions[i] >= RateInterval

\* C3: multi_search does not raise; a query whose provider calls raised maps
\* to the empty list and a query whose provider calls returned R maps to R,
\* whatever the sibling queries did.
C3_BatchIsolation ==
    mpc = "returned" =>
        /\ ~mret.raised
        /\ \A q \in Range(queries) :
              /\ (\A i \in CallsFor(q) : provider_out[i].raised)
                    => mret.value[q] = EmptyList
              /\ \A r \in ProviderAnswers(q) :
                    (\A i \in CallsFor(q) : provider_out[i] = [raised |-> FALSE, value |-> r])
                    => mret.value[q] = r

\* A batch has returned in which one query's provider call raised and a
\* sibling's returned a non-empty list.
C3_Witness ==
    /\ mpc = "returned"
    /\ \E i, j \in Tasks :
          /\ queries[i] # queries[j]
          /\ provider_out[i].raised
          /\ ~provider_out[j].raised
          /\ provider_out[j].value # EmptyList
          /\ mret.value[queries[i]] = EmptyList
          /\ mret.value[queries[j]] = provider_out[j].value

\* C4: the keys of the mapping are exactly the distinct query strings, and
\* the value of a key is the result of a search call issued for that string.
C4_KeysAndValues ==
    mpc = "returned" =>
        /\ ~mret.raised
        /\ DOMAIN mret.value = Range(queries)
        /\ \A q \in Range(queries) :
              /\ \E i \in CallsFor(q) : mret.value[q] = task_result[i].value
              /\ \A k \in DOMAIN mret.value[q] : mret.value[q][k][1] = q

\* A batch with a duplicate and a second key returned, the searches having
\* finished in another order than they were listed.
C4_Witness ==
    /\ mpc = "returned"
    /\ Cardinality(Range(queries)) = 2
    /\ Len(queries) = 3
    /\ finished # <<1, 2, 3>>
    /\ \A q \in Range(queries) : mret.value[q] # EmptyList

\* C5 as stated: under a duplicated query the mapping holds the result of
\* the occurrence whose call finished last.
C5_LastToFinishWins ==
    mpc = "returned" =>
        \A q \in Range(queries) :
            Cardinality(CallsFor(q)) > 1
                => mret.value[q] = task_result[LastFinished(CallsFor(q))].value

\* C5 amended: every occurrence gets its own search call, and the mapping
\* holds the result of the occurrence listed last in queries, whatever the
\* order in which the calls finish.
C5_LastListedWins ==
    mpc = "returned" =>
        /\ Len(admissions) = Len(queries)
        /\ Len(finished) = Len(queries)
        /\ Range(finished) = 1..Len(queries)
        /\ \A q \in Range(queries) :
              mret.value[q] = task_result[MaxOf(CallsFor(q))].value

\* A duplicated query whose last-listed occurrence finished first, with a
\* result other than that of the occurrence finishing last.
C5_Witness ==
    /\ mpc = "returned"
    /\ \E q \in Range(queries) :
          /\ Cardinality(CallsFor(q)) > 1
          /\ LastFinished(CallsFor(q)) # MaxOf(CallsFor(q))
          /\ task_result[LastFinished(CallsFor(q))].value
                # task_result[MaxOf(CallsFor(q))].value
          /\ mret.value[q] = task_result[MaxOf(CallsFor(q))].value

\* ------------------------------------------------ claims on ProxyManager
Working == Range(working_proxies)

IsPrefix(a, b) == Len(a) <= Len(b) /\ \A i \in DOMAIN a : a[i] = b[i]

\* success_count / (success_count + fail_count) < 0.5, for fail_count > 0.
RatioBelowHalf(st) == 2 * st.success_count < st.success_count + st.fail_count

\* The step is the end of a probe of get_proxy's loop over the top proxies.
LoopProbeStep == Len(probed') = Len(probed) + 1

\* The step is get_proxy returning from its fallback.
FallbackReturnStep == gpc = "fallback" /\ gpc' = "returned"

\* C6: mark_proxy_failed(p) on a working proxy counts one failure, removes p
\* when its ratio is then below 0.5 and keeps it otherwise, and changes no
\* other proxy's membership or stats.
C6_MarkFailedEvicts ==
    [][\A p \in Range(proxies) :
         (MarkProxyFailed(p) /\ p \in Working) =>
            /\ proxy_stats'[p].fail_count = proxy_stats[p].fail_count + 1
            /\ proxy_stats'[p].success_count = proxy_stats[p].success_count
            /\ RatioBelowHalf(proxy_stats'[p]) => p \notin Range(working_proxies')
            /\ ~RatioBelowHalf(proxy_stats'[p]) => p \in Range(working_proxies')
            /\ last_exception' = ""
            /\ \A q \in Range(proxies) \ {p} :
                  /\ proxy_stats'[q] = proxy_stats[q]
                  /\ q \in Working <=> q \in Range(working_proxies')
            /\ SelectSeq(working_proxies', LAMBDA q : q # p)
                  = SelectSeq(working_proxies, LAMBDA q : q # p)]_vars

\* In a pool of at least 3 the first proxy was evicted by its first
\* failure; the others are untouched and still working.
C6_Witness ==
    /\ Len(proxies) >= 3
    /\ gpc = "idle"
    /\ last_exception = ""
    /\ 1 \notin Working
    /\ proxy_stats[1].fail_count = 1
    /\ proxy_stats[1].success_count = 0
    /\ \A q \in Range(proxies) \ {1} : q \in Working /\ proxy_stats[q] = NewStats

\* C7 as stated: a proxy leaves working_proxies exactly in a
\* mark_proxy_failed call that brings its ratio below 0.5, and a proxy that
\* mark_proxy_failed leaves in the working set has ratio >= 0.5.
C7_RemovedOnlyByMarkFailed ==
    [][\A p \in Range(proxies) :
         /\ (p \in Working /\ p \notin Range(working_proxies'))
               <=> (MarkProxyFailed(p) /\ p \in Working /\ RatioBelowHalf(proxy_stats'[p]))
         /\ (MarkProxyFailed(p) /\ p \in Range(working_proxies'))
               => ~RatioBelowHalf(proxy_stats'[p])]_vars

\* C7 amended: a proxy leaves working_proxies only in a mark_proxy_failed
\* call on it that brings its ratio below 0.5 (and every such call on a
\* working proxy removes it) or in the pruning that ends get_proxy's
\* fallback; no other step removes a proxy, none adds one, and a proxy that
\* mark_proxy_failed leaves in the working set has ratio >= 0.5.
C7_RemovedByMarkFailedOrPrune ==
    [][\A p \in Range(proxies) :
         /\ (p \in Working /\ p \notin Range(working_proxies'))
               => \/ MarkProxyFailed(p) /\ RatioBelowHalf(proxy_stats'[p])
                  \/ FallbackReturnStep
         /\ (MarkProxyFailed(p) /\ p \in Working /\ RatioBelowHalf(proxy_stats'[p]))
               => p \notin Range(working_proxies')
         /\ (MarkProxyFailed(p) /\ p \in Range(working_proxies'))
               => ~RatioBelowHalf(proxy_stats'[p])
         /\ p \notin Working => p \notin Range(working_proxies')]_vars

\* get_proxy has returned from its fallback having pruned a proxy that never
\* recorded a failure, while another proxy was evicted by mark_proxy_failed.
C7_Witness ==
    /\ gpc = "returned"
    /\ fb_tasks # <<>>
    /\ \E p \in Range(fb_tasks) :
          /\ p \notin Working
          /\ proxy_stats[p].fail_count = 0
    /\ \E q \in Range(proxies) \ Range(fb_tasks) :
          /\ q \notin Working
          /\ RatioBelowHalf(proxy_stats[q])

\* What C8 says of a probe of the loop, whatever the order: at most the top
\* 3 are probed, in the order of sorted_proxies; the first that verifies is
\* stamped and returned, and a candidate that does not verify is not.
C8_ProbeLoop ==
    /\ [](IsPrefix(probed, sorted_proxies) /\ Len(sorted_proxies) <= TopN)
    /\ [][LoopProbeStep =>
            LET p == probed'[Len(probed')] IN
            /\ gpc = "probe"
            /\ IF proxy_stats'[p].success_count = proxy_stats[p].success_count + 1
               THEN /\ gpc' = "returned"
                    /\ gret' = p
                    /\ last_used'[p] = now'
                    /\ last_used'[p] > last_used[p]
               ELSE /\ gpc' # "returned"
                    /\ last_used' = last_used]_vars

\* The candidates chosen at the start of get_proxy are the 3 best of the
\* working proxies by the score of the stats at that moment (all of them if
\* fewer): nobody left out has a greater score than somebody chosen.
C8_TopChosen ==
    [][(gpc = "idle" /\ gpc' = "probe") =>
         /\ Len(sorted_proxies') = Min2(TopN, Len(working_proxies))
         /\ Range(sorted_proxies') \subseteq Working
         /\ Cardinality(Range(sorted_proxies')) = Len(sorted_proxies')
         /\ \A q \in Working \ Range(sorted_proxies') : \A i \in DOMAIN sorted_proxies' :
               ~KeyGreater(proxy_stats, q, sorted_proxies'[i])]_vars

\* C8 as stated: the candidates are in strictly descending order of score.
C8_StrictlyDescending ==
    /\ C8_ProbeLoop
    /\ C8_TopChosen
    /\ [][(gpc = "idle" /\ gpc' = "probe") =>
            \A i, j \in DOMAIN sorted_proxies' :
               i < j => KeyGreater(proxy_stats, sorted_proxies'[i], sorted_proxies'[j])]_vars

\* C8 amended: the candidates are in non-increasing order of score, and of
\* two candidates with equal scores the one earlier in working_proxies is
\* probed first.
C8_NonIncreasing ==
    /\ C8_ProbeLoop
    /\ C8_TopChosen
    /\ [][(gpc = "idle" /\ gpc' = "probe") =>
            \A i, j \in DOMAIN sorted_proxies' :
               i < j =>
                 /\ ~KeyGreater(proxy_stats, sorted_proxies'[j], sorted_proxies'[i])
                 /\ ~KeyGreater(proxy_stats, sorted_proxies'[i], sorted_proxies'[j])
                      => \E a, b \in DOMAIN working_proxies :
                            /\ a < b
                            /\ working_proxies[a] = sorted_proxies'[i]
                            /\ working_proxies[b] = sorted_proxies'[j]]_vars

\* In a pool of 4, get_proxy probed 3 proxies in an order that is not the
\* order of the list, left the fourth alone, and went on to the fallback.
C8_Witness ==
    /\ gpc = "fallback"
    /\ Len(working_proxies) = TopN + 1
    /\ Len(probed) = TopN
    /\ probed[1] # working_proxies[1]
    /\ \E p \in Working : p \notin Range(probed)
    /\ KeyGreater(proxy_stats, probed[1], probed[2])

\* C9: get_proxy returning from its fallback returns a proxy that verified
\* in the fallback and is in working_proxies at return, whatever ran while
\* it was suspended; it returns None when the working set is empty or every
\* verification failed; and when nothing changed the working set meanwhile
\* it returns the first proxy, in the order of the list, that verified.
C9_FallbackReturnsVerified ==
    [][FallbackReturnStep =>
         LET ok == {i \in DOMAIN fb_results : fb_results[i] = "True"} IN
         /\ gret' # 0 =>
               /\ gret' \in {fb_tasks[i] : i \in ok}
               /\ gret' \in Range(working_proxies')
         /\ (ok = {} \/ working_proxies = <<>>) => gret' = 0
         /\ (working_proxies = fb_tasks /\ ok # {}) =>
               gret' = fb_tasks[CHOOSE i \in ok : \A k \in ok : i <= k]]_vars

\* C10: a verify_proxy that returns False has counted one failure and no
\* success; one that returns True has counted one success and no failure
\* and moved last_verified. Seen where get_proxy reads the return value.
C10_VerifyCountsEveryFailure ==
    [][/\ LoopProbeStep =>
            LET p == probed'[Len(probed')] IN
            IF gpc' = "returned"
            THEN /\ proxy_stats'[p].success_count = proxy_stats[p].success_count + 1
                 /\ proxy_stats'[p].fail_count = proxy_stats[p].fail_count
                 /\ proxy_stats'[p].last_verified > proxy_stats[p].last_verified
            ELSE /\ proxy_stats'[p].fail_count = proxy_stats[p].fail_count + 1
                 /\ proxy_stats'[p].success_count = proxy_stats[p].success_count
       /\ \A i \in DOMAIN fb_results :
            (gpc = "fallback" /\ gpc' = "fallback" /\ fb_results'[i] # fb_results[i]) =>
               LET p == fb_tasks[i] IN
               IF fb_results'[i] = "True"
               THEN /\ proxy_stats'[p].success_count = proxy_stats[p].success_count + 1
                    /\ proxy_stats'[p].fail_count = proxy_stats[p].fail_count
                    /\ proxy_stats'[p].last_verified > proxy_stats[p].last_verified
               ELSE /\ proxy_stats'[p].fail_count = proxy_stats[p].fail_count + 1
                    /\ proxy_stats'[p].success_count = proxy_stats[p].success_count]_vars

\* ------------------- claims on allowed_by_robots, fetch and scrape_urls
RECURSIVE Pow2(_)
Pow2(n) == IF n = 0 THEN 1 ELSE 2 * Pow2(n - 1)

\* The step in which the allowed_by_robots call of fetch i answers.
RobotsAnswerStep(i) == fpc[i] \in {"lookup", "answer"} /\ fpc'[i] = "checked"

\* The stored parser of the origin did not come from a document that was
\* fetched and parsed.
ReadFailed(o) == o \in DOMAIN robot_parsers /\ ~robot_parsers[o].last_checked

\* The fetch of urls[i] has ended, every one of its GETs having failed.
Exhausted(i) == fpc[i] = "done" /\ allowed[i] /\ Len(sleeps[i]) = gets[i]

\* C11: the robots document of an origin is fetched at most once, whatever
\* the interleaving of the threads, and exactly once when a parser is stored
\* for the origin.
C11_RobotsFetchedOnce ==
    \A o \in DOMAIN robots_reads :
        /\ robots_reads[o] <= 1
        /\ o \in DOMAIN robot_parsers => robots_reads[o] = 1

\* C12: when the fetch or the parsing of an origin's document failed, every
\* call for a url of that origin answers True, and the document is not
\* fetched again once an outcome is stored.
C12_FailOpen ==
    [][/\ \A i \in Fetches :
             (RobotsAnswerStep(i) /\ ReadFailed(BaseUrl(urls[i]))) => allowed'[i]
       /\ \A o \in DOMAIN robots_reads :
             o \in DOMAIN robot_parsers => robots_reads'[o] = robots_reads[o]]_vars

\* C13: a fetch whose policy check disallowed the url has returned a
\* ScrapeResult for the url with the policy error, and took no proxy, issued
\* no GET and slept no backoff.
C13_DeniedReturnsResult ==
    \A i \in Fetches :
        (fpc[i] = "done" /\ ~allowed[i]) =>
            /\ selections[i] = 0
            /\ gets[i] = 0
            /\ sleeps[i] = <<>>
            /\ ~fres[i].raised
            /\ fres[i].result.url = urls[i]
            /\ fres[i].result.error = "Disallowed by robots.txt"

\* C14: a fetch of an allowed url whose GETs all failed made max_retries
\* attempts, slept 1, 2, 4, ... after them, and returned a ScrapeResult with
\* the error "Failed after retries" and empty content.
C14_ExhaustedReturnsResult ==
    \A i \in Fetches :
        Exhausted(i) =>
            /\ gets[i] = max_retries
            /\ selections[i] = max_retries
            /\ sleeps[i] = [k \in 1..max_retries |-> Pow2(k - 1)]
            /\ ~fres[i].raised
            /\ fres[i].result.url = urls[i]
            /\ fres[i].result.error = "Failed after retries"
            /\ fres[i].result.content = ""

\* C15: scrape_urls does not raise and returns one ScrapeResult per url, in
\* the order of urls; a denied or exhausted url has its error set, and a url
\* that was fetched has the content of its own fetch.
C15_ScrapeBatchIsolation ==
    spc = "returned" =>
        /\ ~sret.raised
        /\ Len(sret.value) = Len(urls)
        /\ \A i \in DOMAIN urls :
              /\ sret.value[i].url = urls[i]
              /\ (fpc[i] = "done" /\ (~allowed[i] \/ Exhausted(i)))
                    => sret.value[i].error # None
              /\ (fpc[i] = "done" /\ allowed[i] /\ ~Exhausted(i))
                    => sret.value[i] = [url |-> urls[i], content |-> fres[i].result.content,
                                        error |-> None]

\* ---------------------------------------------------- claims on WebScraper
\* The step in which call c comes back: it returned or raised.
CallEnds(c) == cpc[c] # "done" /\ cpc'[c] = "done"

\* C16: a get_page_content(url) with use_cache = True that finds an entry
\* for url with now - stored_at < cache_ttl returns the stored content
\* without a transport call, a slot or a change of the cache; with no entry,
\* or one with now - stored_at >= cache_ttl (always so when cache_ttl is 0),
\* it goes to the transport, and no call comes back without a transport call
\* unless it was answered that way.
C16_CacheWithinTtl ==
    [][\A c \in Callers :
         /\ \A url \in PageUrls :
               GetPageContentStart(c, url, TRUE) =>
                  IF url \in DOMAIN cache /\ now - cache[url][2] < cache_ttl
                  THEN /\ cpc'[c] = "done"
                       /\ cres'[c] = [raised |-> FALSE, exc |-> "", value |-> cache[url][1]]
                       /\ transport'[c] = 0
                       /\ connections' = connections
                       /\ cache' = cache
                  ELSE /\ cpc'[c] \in {"waiting", "get"}
                       /\ cpc'[c] = "get" => transport'[c] = 1
                       /\ cpc'[c] = "waiting" => connections = 0
         /\ CallEnds(c) =>
               \/ cpc[c] = "get" /\ transport[c] = 1
               \/ /\ cpc[c] = "idle"
                  /\ curl'[c] \in DOMAIN cache
                  /\ now - cache[curl'[c]][2] < cache_ttl]_vars

\* A call was answered from the cache, without a transport call, at an
\* instant later than the entry was stored, while the other caller's call
\* for a url that has an entry is at the transport.
C16_Witness ==
    \E c, d \in Callers :
        /\ cpc[c] = "done"
        /\ transport[c] = 0
        /\ curl[c] \in DOMAIN cache
        /\ cres[c].value = cache[curl[c]][1]
        /\ now > cache[curl[c]][2]
        /\ cpc[d] = "get"
        /\ curl[d] \in DOMAIN cache
        /\ now - cache[curl[d]][2] >= cache_ttl

\* C17: a call that went to the transport made exactly one transport call
\* when it comes back, and gives its slot back. After a 200 the cache holds
\* (content, now) under the url and the call returns that content; after a
\* failure the call raises ClientError and the cache is as it was. Nothing
\* but a successful call or clear_cache changes the cache.
C17_MissOneAttempt ==
    /\ [](/\ connections = max_connections - Cardinality({c \in Callers : cpc[c] = "get"})
          /\ \A c \in Callers : transport[c] <= 1)
    /\ [][/\ \A c \in Callers :
                (CallEnds(c) /\ cpc[c] = "get") =>
                   /\ transport'[c] = 1
                   /\ connections' = connections + 1
                   /\ IF cres'[c].raised
                      THEN /\ cache' = cache
                           /\ cres'[c].exc \in {"ClientError: Failed to fetch",
                                               "ClientError: Failed to fetch: HTTP status"}
                      ELSE /\ cache'[curl[c]] = <<cres'[c].value, now>>
                           /\ cres'[c].value \in {GetText(h) : h \in Html}
                           /\ \A u \in DOMAIN cache : u # curl[c] => cache'[u] = cache[u]
          /\ cache' # cache =>
                \/ \E c \in Callers : CallEnds(c) /\ cpc[c] = "get" /\ ~cres'[c].raised
                \/ cache' = <<>>]_vars

\* With one connection slot, a call had to wait for it, then failed at the
\* transport: it raised, gave the slot back, and the entry the cache holds
\* for its url is the older one.
C17_Witness ==
    \E c \in Callers :
        /\ max_connections = 1
        /\ cpc[c] = "done"
        /\ cres[c].raised
        /\ transport[c] = 1
        /\ connections = max_connections
        /\ curl[c] \in DOMAIN cache
        /\ cache[curl[c]][2] < now

\* ---------------------------------------------------------- claims on Proxy
\* C18: a ProxyManager can be built over any list of proxies, with one stats
\* record per identity (host, port, protocol); and two proxies of the same
\* identity are equal whatever their last_used, so that stamping a proxy
\* does not change the record it denotes.
C18_IdentityKeyed ==
    /\ pm_state \in {"new", "constructed"}
    /\ pm_state = "constructed" =>
          Cardinality(pm_keys) = Cardinality({Identity(p) : p \in Range(proxy_objects)})
    /\ \A a, b \in Range(proxy_objects) : Identity(a) = Identity(b) => ProxyEq(a, b)

\* ------------------------------------------- claims on the gate's capacity
\* C19: a search that is past the semaphore gives its slot back exactly once
\* when it ends, however it ends (a call that fails in _rate_limit takes and
\* gives back its slot in one step); nothing else frees a slot; and with no
\* search past the semaphore every slot is free.
C19_SlotReleasedOnce ==
    /\ [](InFlight = {} => semaphore = max_concurrent_searches)
    /\ [][/\ \A t \in Tasks :
                /\ (t \in InFlight /\ tpc'[t] = "done") => semaphore' = semaphore + 1
                /\ (tpc[t] = "waiting" /\ tpc'[t] = "done") =>
                      /\ semaphore > 0
                      /\ semaphore' = semaphore
                      /\ task_result'[t].raised
          /\ semaphore' > semaphore => \E t \in Tasks : t \in InFlight /\ tpc'[t] = "done"
          /\ semaphore' < semaphore =>
                /\ semaphore' = semaphore - 1
                /\ \E t \in Tasks : tpc[t] = "waiting" /\ tpc'[t] \in {"sleeping", "provider"}]_vars

\* With rate_limit = 0 a batch of three has ended, every search having
\* failed in _rate_limit, multi_search having raised, and both slots of the
\* gate are free.
C19_Witness ==
    /\ rate_limit = 0
    /\ max_concurrent_searches = 2
    /\ Len(queries) = 3
    /\ \A t \in Tasks : tpc[t] = "done" /\ task_result[t].raised
    /\ mret.raised
    /\ semaphore = max_concurrent_searches

\* ------------------------------------------------- claims on the counters
\* C20: whatever the interleaving of verify_proxy, mark_proxy_success and
\* mark_proxy_failed, the success_count of a proxy is the number of
\* mark_proxy_success calls and successful verifies on it, its fail_count
\* the number of mark_proxy_failed calls and verifies that raised, and no
\* step lowers either counter.
C20_NoLostUpdate ==
    /\ [](\A p \in Range(proxies) :
             /\ proxy_stats[p].success_count = calls[p].success
             /\ proxy_stats[p].fail_count = calls[p].fail)
    /\ [][\A p \in Range(proxies) :
             /\ proxy_stats'[p].success_count >= proxy_stats[p].success_count
             /\ proxy_stats'[p].fail_count >= proxy_stats[p].fail_count]_vars

\* While get_proxy is suspended in its fallback, a proxy of the gather has
\* verified after a mark_proxy_success on it: both successes are counted
\* (the average is that of one probe taken as the second success).
C20_Witness ==
    /\ gpc = "fallback"
    /\ \E i \in DOMAIN fb_results :
          /\ fb_results[i] = "True"
          /\ proxy_stats[fb_tasks[i]].success_count = 2
          /\ proxy_stats[fb_tasks[i]].avg_response_time = <<1, 2>>
          /\ calls[fb_tasks[i]].success = 2

\* --------------------------------------- claims on reporting a failure
\* C22: mark_proxy_failed on any registered proxy, in any state of the pool,
\* completes without raising, counts the failure, and leaves working_proxies
\* as it is when the proxy is not in it any more.
C22_MarkFailedSafe ==
    [][\A p \in Range(proxies) :
          MarkProxyFailed(p) =>
             /\ last_exception' = ""
             /\ proxy_stats'[p].fail_count = proxy_stats[p].fail_count + 1
             /\ (p \notin Working => working_proxies' = working_proxies)]_vars

\* ------------------------------------------------- claims on the fan-in
Admitted(t) == t \in Tasks /\ tpc[t] \in {"provider", "done"}

Settled(t) == t \in Tasks /\ tpc[t] = "done"

\* C21: every search of a batch is eventually past the gate, also when the
\* batch is larger than max_concurrent_searches; multi_search eventually
\* returns its dict; and it returns only when every search has settled.
C21_FanIn ==
    /\ (mpc = "gather") ~>
          (mpc = "returned" /\ ~mret.raised /\ \A t \in Tasks : Admitted(t))
    /\ [](mpc = "returned" => \A t \in Tasks : Settled(t))
    /\ [][mpc' # mpc /\ mpc' = "returned" => \A t \in Tasks : Settled(t)]_vars

\* A batch of three over a gate of one slot has returned; the first two
\* searches to take the slot slept for it, the clock having reached its
\* bound before the third did.
C21_Witness ==
    /\ max_concurrent_searches = 1
    /\ Len(queries) = 3
    /\ mpc = "returned"
    /\ ~mret.raised
    /\ Len(admissions) = 3
    /\ now > MaxTime

====
